---- MODULE Spec2Model ----
(***************************************************************************)
(* A model of the ASCII-art converter of backend/ascii_maker.py            *)
(* (ImageToASCII, VideoToASCII) as it is driven by the request handlers of *)
(* backend/main.py.                                                        *)
(*                                                                         *)
(* Text is a sequence of character codes (ord(c)); a pixel is an RGB       *)
(* triple; a raster is a sequence of rows of pixels.  Numbers the code     *)
(* computes in floating point are computed here in exact integer           *)
(* arithmetic; on every input the model enumerates the two agree (the      *)
(* float product of resize_image differs from the exact one only when the  *)
(* exact product is an integer that 0.43 misses, which needs a source      *)
(* width that is a multiple of 43).                                        *)
(***************************************************************************)
EXTENDS Integers, Sequences, FiniteSets, TLC

(***************************************************************************)
(* Bounds of the model.                                                    *)
(***************************************************************************)
\* Only requests whose character grid has at most MaxRows rows are enumerated.
MaxRows == 2
\* A video source holds at most MaxFrames frames.
MaxFrames == 2
\* Texts handed to _sanitize_ascii directly have at most MaxTextLen characters.
MaxTextLen == 4

(***************************************************************************)
(* Program constants.                                                      *)
(***************************************************************************)
\* ImageToASCII.CHARS = " .:-=#"
CHARS == <<32, 46, 58, 45, 61, 35>>
\* self.scale = 0.43, as the fraction ScaleNum / ScaleDen
ScaleNum == 43
ScaleDen == 100
\* min(width, 150)
SafeWidth == 150
\* char_width = 8, char_height = 14
CharWidth == 8
CharHeight == 14

\* ord('\n') and ord(' ')
NL == 10
SPACE == 32

(***************************************************************************)
(* Small helpers.                                                          *)
(***************************************************************************)
Min(a, b) == IF a <= b THEN a ELSE b

Max(a, b) == IF a >= b THEN a ELSE b

\* Python's round() of the fraction n / d (n >= 0, d > 0): to nearest, ties to even.
RoundDiv(n, d) ==
    LET q == n \div d
        r == n % d
    IN  IF 2 * r < d THEN q
        ELSE IF 2 * r > d THEN q + 1
        ELSE IF q % 2 = 0 THEN q ELSE q + 1

RECURSIVE SumRange(_, _, _)
\* s[lo] + ... + s[hi], by halves
SumRange(s, lo, hi) ==
    IF lo > hi THEN 0
    ELSE IF lo = hi THEN s[lo]
    ELSE LET mid == (lo + hi) \div 2
         IN  SumRange(s, lo, mid) + SumRange(s, mid + 1, hi)

SumSeq(s) == SumRange(s, 1, Len(s))

RECURSIVE MaxLen(_)
\* max(len(line) for line in lines) if lines else 0
MaxLen(lines) ==
    IF lines = <<>> THEN 0 ELSE Max(Len(Head(lines)), MaxLen(Tail(lines)))

(***************************************************************************)
(* ImageToASCII: the pure parts.                                           *)
(***************************************************************************)
\* A mutant of NewHeight: the product rounded to nearest instead of truncated.
NewHeight_Rounded(width, W, H) == RoundDiv(width * H * ScaleNum, W * ScaleDen)

\* resize_image: new_height = int(self.width * (H / W) * self.scale)
NewHeight(width, W, H) == (width * H * ScaleNum) \div (W * ScaleDen)

\* A mutant of CharIndex: the index rounded to nearest instead of truncated.
CharIndex_Rounded(brightness) == RoundDiv(brightness * (Len(CHARS) - 1), 255)

\* get_char: char_index = int((brightness / 255) * (len(self.chars) - 1))
CharIndex(brightness) == (brightness * (Len(CHARS) - 1)) \div 255

\* get_char: self.chars[char_index]  (Python indexes from 0)
GetChar(brightness) == CHARS[CharIndex(brightness) + 1]

\* image.convert('L') of an RGB pixel: Pillow's ITU-R 601-2 luma transform,
\* L = (R * 19595 + G * 38470 + B * 7471 + 0x8000) >> 16.
Luma(p) == (p[1] * 19595 + p[2] * 38470 + p[3] * 7471 + 32768) \div 65536

\* ImageEnhance.Contrast(image): the degenerate image is the solid grey
\* int(mean(image.convert('L')) + 0.5).
MeanLuma(raster) ==
    LET rowSum(row) == SumSeq([x \in 1..Len(row) |-> Luma(row[x])])
        total == SumSeq([y \in 1..Len(raster) |-> rowSum(raster[y])])
        count == SumSeq([y \in 1..Len(raster) |-> Len(raster[y])])
    IN  (2 * total + count) \div (2 * count)

\* Image.blend(degenerate, image, factor) on one channel, factor = halves / 2:
\* d + factor * (v - d), cast to 8 bits; clipped to 0..255 when the factor
\* is outside 0..1.
BlendChannel(d, v, halves) ==
    LET twice == 2 * d + halves * (v - d)
    IN  IF twice <= 0 THEN 0
        ELSE IF twice >= 2 * 255 THEN 255
        ELSE twice \div 2

\* enhancer.enhance(self.contrast)
Enhance(raster, halves) ==
    LET d == MeanLuma(raster)
    IN  [y \in 1..Len(raster) |->
            [x \in 1..Len(raster[y]) |->
                [c \in 1..3 |-> BlendChannel(d, raster[y][x][c], halves)]]]

\* A mutant of AdjustImage: contrast scales around the fixed midpoint 128.
AdjustImage_Midpoint(raster, halves) ==
    IF halves # 2
    THEN [y \in 1..Len(raster) |->
            [x \in 1..Len(raster[y]) |->
                [c \in 1..3 |-> BlendChannel(128, raster[y][x][c], halves)]]]
    ELSE raster

\* adjust_image: the enhancer is applied unless self.contrast == 1.0
AdjustImage(raster, halves) ==
    IF halves # 2 THEN Enhance(raster, halves) ELSE raster

\* A mutant of AsciiRow: the blank glyphs that end a row are left out.
AsciiRow_TrailingBlanksDropped(row) ==
    LET full == [x \in 1..Len(row) |-> GetChar(Luma(row[x]))]
        kept == {i \in 1..Len(full) : full[i] # SPACE}
    IN  IF kept = {} THEN <<>>
        ELSE SubSeq(full, 1, CHOOSE i \in kept : \A j \in kept : i >= j)

\* The double loop of convert_to_ascii / convert_frame: one character per
\* pixel of the greyscale image, a newline after every row.
AsciiRow(row) == [x \in 1..Len(row) |-> GetChar(Luma(row[x]))]

RECURSIVE AsciiStr(_)
AsciiStr(raster) ==
    IF raster = <<>> THEN <<>>
    ELSE AsciiRow(Head(raster)) \o <<NL>> \o AsciiStr(Tail(raster))

\* export_image_to_png builds the list of lines directly.
AsciiLines(raster) == [y \in 1..Len(raster) |-> AsciiRow(raster[y])]

(***************************************************************************)
(* VideoToASCII: text helpers.                                             *)
(***************************************************************************)
\* A mutant of SanitizeAscii: a character outside 32..126 is left out.
SanitizeAscii_Dropping(text) ==
    SelectSeq(text, LAMBDA c : c = NL \/ (32 <= c /\ c <= 126))

\* _sanitize_ascii: newline kept, 32..126 kept, anything else a space.
SanitizeAscii(text) ==
    [i \in 1..Len(text) |->
        IF text[i] = NL THEN NL
        ELSE IF 32 <= text[i] /\ text[i] <= 126 THEN text[i]
        ELSE SPACE]

\* The characters str.strip() removes (str.isspace).
IsSpace(c) == c \in {9, 10, 11, 12, 13, 28, 29, 30, 31, 32, 133, 160}

\* ascii_frame.strip()
Strip(t) ==
    LET kept == {i \in 1..Len(t) : ~IsSpace(t[i])}
    IN  IF kept = {} THEN <<>>
        ELSE SubSeq(t, CHOOSE i \in kept : \A j \in kept : i <= j,
                       CHOOSE i \in kept : \A j \in kept : i >= j)

RECURSIVE SplitNL(_)
\* text.split('\n')
SplitNL(t) ==
    IF \A i \in 1..Len(t) : t[i] # NL THEN <<t>>
    ELSE LET i == CHOOSE k \in 1..Len(t) :
                     t[k] = NL /\ \A j \in 1..(k - 1) : t[j] # NL
         IN  <<SubSeq(t, 1, i - 1)>> \o SplitNL(SubSeq(t, i + 1, Len(t)))

\* line.ljust(n)[:n]
LjustCut(line, n) == [i \in 1..n |-> IF i <= Len(line) THEN line[i] ELSE SPACE]


(***************************************************************************)
(* Inputs.                                                                 *)
(***************************************************************************)
Black == <<0, 0, 0>>
White == <<255, 255, 255>>

Pixels == {Black, White}

\* The resampling filter is Pillow's; the code fixes only the size of the
\* resampled raster.  What the filter makes of a frame is data of the frame:
\* a 2 x 2 texture that the resampled raster repeats.
TexCoords == {0, 1}

Textures == [TexCoords \X TexCoords -> Pixels]

NoTex == <<>>

NoFrame == [w |-> 0, h |-> 0, tex |-> NoTex]

\* Requested widths, below, at and above the cap.
Widths == {2, 3, SafeWidth, SafeWidth + 1}

\* Source sizes <<W, H>>.
SrcSizes == {<<1, 1>>, <<1, 2>>, <<1, 3>>, <<100, 2>>, <<100, 1>>}

\* contrast as a number of halves: 0, 1.0 and 2.0
Contrasts == {0, 2, 4}

\* Source frame rates (frames per second).
FpsSet == {5, 6}

\* time_sec of a frame request.
Times == {0, 1}

ImageOps == {"convert_to_ascii", "export_image_to_png"}

SeekOps == {"get_frame_at_time", "export_frame_to_png"}

StreamOps == {"extract_all_frames", "export_video", "export_gif"}

\* The handlers of main.py that pass min(width, 150) to the converter.
CappingOps == {"export_frame_to_png", "extract_all_frames", "export_video", "export_gif"}

\* image.resize((self.width, new_height)): the resampled raster of a frame.
Raster(fr, width) ==
    [y \in 1..NewHeight(width, fr.w, fr.h) |->
        [x \in 1..width |-> fr.tex[<<(y - 1) % 2, (x - 1) % 2>>]]]

\* Image.open / Image.fromarray: the frame at its own size.
SourceRaster(fr) ==
    [y \in 1..fr.h |-> [x \in 1..fr.w |-> fr.tex[<<(y - 1) % 2, (x - 1) % 2>>]]]

\* A mutant of ConvertOrder: the contrast is adjusted before the resize.
ConvertOrder_AdjustFirst == <<"adjust", "resize", "sample">>

\* The order of the calls in convert_to_ascii, export_image_to_png and
\* convert_frame: resize_image, adjust_image, the greyscale sampling.
ConvertOrder == <<"resize", "adjust", "sample">>

\* The step that follows step p of a conversion.
StepAfter(p) ==
    LET i == CHOOSE k \in 1..Len(ConvertOrder) : ConvertOrder[k] = p
    IN  IF i < Len(ConvertOrder) THEN ConvertOrder[i + 1] ELSE "converted"

NoWriter == [state |-> "none", w |-> 0, h |-> 0, fps |-> 0, n |-> 0, frames |-> <<>>]

NoImg == [made |-> FALSE, w |-> 0, h |-> 0, draws |-> {}]

NoGif == [saved |-> FALSE, duration |-> 0, n |-> 0]

NoProbe == [fn |-> "none", in |-> <<>>, out |-> <<>>, raised |-> FALSE]

(***************************************************************************)
(* State.                                                                  *)
(***************************************************************************)
VARIABLES
    op,        \* the method that is running, "idle" when none
    entry,     \* "http": through a handler of main.py; "api": called directly
    pc,        \* the position in the method
    reqWidth,  \* the width the caller asked for
    width,     \* converter.width
    contrast,  \* converter.contrast, in halves
    src,       \* the source: [w, h, fps]
    first,     \* the texture of frame 0 of the video, once decoded
    cap,       \* the decoder handle: "none", "open", "released"
    pos,       \* the decoder's position (CAP_PROP_POS_FRAMES)
    frame,     \* the frame being converted
    image,     \* the PIL image of the conversion
    stages,    \* the stages the current conversion has passed
    ascii,     \* ascii_str / ascii_frame / ascii_first
    asciiW,    \* ascii_width
    asciiH,    \* ascii_height
    out,       \* the video writer
    img,       \* the raster last rendered
    orig,      \* export_video's original_width
    files,     \* extract_all_frames: len(frame_files)
    gif,       \* export_gif: what was saved
    framesRead,\* export_gif: len(frames_list)
    result,    \* how the method ended: "none", "returned", "raised"
    retval,    \* the text a method returned
    resp,      \* the handler's response: "none", "success", "error"
    decodeFailed, \* the requested frame could not be read (ret was False)
    probe      \* a direct call of a pure method: [fn, in, out]

vars == <<op, entry, pc, reqWidth, width, contrast, src, first, cap, pos, frame,
          image, stages, ascii, asciiW, asciiH, out, img, orig, files, gif,
          framesRead, result, retval, resp, decodeFailed, probe>>

Init ==
    /\ op = "idle"
    /\ entry = "http"
    /\ pc = "idle"
    /\ reqWidth = 0
    /\ width = 0
    /\ contrast = 2
    /\ src = [w |-> 0, h |-> 0, fps |-> 0]
    /\ first = NoTex
    /\ cap = "none"
    /\ pos = 0
    /\ frame = NoFrame
    /\ image = <<>>
    /\ stages = <<>>
    /\ ascii = <<>>
    /\ asciiW = 0
    /\ asciiH = 0
    /\ out = NoWriter
    /\ img = NoImg
    /\ orig = 0
    /\ files = 0
    /\ gif = NoGif
    /\ framesRead = 0
    /\ result = "none"
    /\ retval = <<>>
    /\ resp = "none"
    /\ decodeFailed = FALSE
    /\ probe = NoProbe


(***************************************************************************)
(* Entering a method.                                                      *)
(***************************************************************************)
\* The width the converter is constructed with: the handlers of the raster
\* video outputs pass min(width, 150), the others pass width; a direct call
\* passes width.
ConverterWidth(e, o, w) ==
    IF e = "http" /\ o \in CappingOps THEN Min(w, SafeWidth) ELSE w

\* A direct call is enumerated only where it differs from the handler's call,
\* which is where the handler caps the width.
Entries(o, w) ==
    {"http"} \cup (IF ConverterWidth("http", o, w) # w THEN {"api"} ELSE {})

\* frame_number = int(time_sec * fps)
FrameNumber(t, fps) == t * fps

\* convert_image / export_image_png: the converter is constructed and the
\* method opens the image.
CallImage ==
    /\ op = "idle" /\ probe = NoProbe
    /\ \E o \in ImageOps, w \in Widths, c \in Contrasts, sz \in SrcSizes, t \in Textures :
        \E e \in Entries(o, w) :
            /\ NewHeight(ConverterWidth(e, o, w), sz[1], sz[2]) <= MaxRows
            /\ op' = o
            /\ entry' = e
            /\ reqWidth' = w
            /\ width' = ConverterWidth(e, o, w)
            /\ contrast' = c
            /\ src' = [w |-> sz[1], h |-> sz[2], fps |-> 0]
            /\ frame' = [w |-> sz[1], h |-> sz[2], tex |-> t]
            /\ image' = SourceRaster([w |-> sz[1], h |-> sz[2], tex |-> t])
            /\ stages' = <<"Received">>
            /\ pc' = ConvertOrder[1]
    /\ UNCHANGED <<first, cap, pos, ascii, asciiW, asciiH, out, img, orig,
                   files, gif, framesRead, result, retval, resp, decodeFailed, probe>>

\* The video methods: the converter is constructed and the method opens the
\* decoder.  export_video (and export_gif, which calls it first) caps
\* converter.width and keeps the original; the frame methods seek.
CallVideo ==
    /\ op = "idle" /\ probe = NoProbe
    /\ \E o \in SeekOps \cup StreamOps, w \in Widths, c \in Contrasts,
          sz \in SrcSizes, f \in FpsSet, t \in Times :
        \E e \in Entries(o, w) :
            LET cw == ConverterWidth(e, o, w)
                capped == o \in {"export_video", "export_gif"}
                eff == IF capped THEN Min(cw, SafeWidth) ELSE cw
            IN  /\ NewHeight(eff, sz[1], sz[2]) <= MaxRows
                /\ o \in SeekOps \/ t = 0
                /\ op' = o
                /\ entry' = e
                /\ reqWidth' = w
                /\ orig' = IF capped THEN cw ELSE 0
                /\ width' = eff
                /\ contrast' = c
                /\ src' = [w |-> sz[1], h |-> sz[2], fps |-> f]
                /\ cap' = "open"
                /\ pos' = IF o \in SeekOps THEN FrameNumber(t, f) ELSE 0
                /\ pc' = "read"
    /\ UNCHANGED <<first, frame, image, stages, ascii, asciiW, asciiH, out, img,
                   files, gif, framesRead, result, retval, resp, decodeFailed, probe>>

(***************************************************************************)
(* An exception leaves the method at once: nothing in ascii_maker.py       *)
(* catches it or runs on the way out.                                      *)
(***************************************************************************)
Raise ==
    /\ result' = "raised"
    /\ pc' = "done"

(***************************************************************************)
(* One conversion: resize_image, adjust_image, the greyscale sampling.     *)
(***************************************************************************)
\* image = self.resize_image(image); Pillow refuses a size of 0 rows
\* (ValueError: height and width must be > 0).
Resize ==
    /\ pc = "resize"
    /\ \/ /\ NewHeight(width, frame.w, frame.h) >= 1
          /\ image' = Raster(frame, width)
          /\ stages' = Append(stages, "Resampled")
          /\ pc' = StepAfter("resize")
          /\ UNCHANGED result
       \/ /\ NewHeight(width, frame.w, frame.h) < 1
          /\ Raise
          /\ UNCHANGED <<image, stages>>
    /\ UNCHANGED <<op, entry, reqWidth, width, contrast, src, first, cap, pos, frame,
                   ascii, asciiW, asciiH, out, img, orig, files, gif, framesRead,
                   retval, resp, decodeFailed, probe>>

\* image = self.adjust_image(image)
Adjust ==
    /\ pc = "adjust"
    /\ image' = AdjustImage(image, contrast)
    /\ stages' = Append(stages, "ToneAdjusted")
    /\ pc' = StepAfter("adjust")
    /\ UNCHANGED <<op, entry, reqWidth, width, contrast, src, first, cap, pos, frame,
                   ascii, asciiW, asciiH, out, img, orig, files, gif, framesRead,
                   result, retval, resp, decodeFailed, probe>>

\* grayscale_image = image.convert('L') and the loop over its pixels
Sample ==
    /\ pc = "sample"
    /\ ascii' = AsciiStr(image)
    /\ stages' = Append(stages, "Sampled")
    /\ pc' = StepAfter("sample")
    /\ UNCHANGED <<op, entry, reqWidth, width, contrast, src, first, cap, pos, frame,
                   image, asciiW, asciiH, out, img, orig, files, gif, framesRead,
                   result, retval, resp, decodeFailed, probe>>


(***************************************************************************)
(* What each method does with the converted frame.                         *)
(***************************************************************************)
\* convert_to_ascii, get_frame_at_time: return ascii_str
ReturnText ==
    /\ pc = "converted"
    /\ op \in {"convert_to_ascii", "get_frame_at_time"}
    /\ retval' = ascii
    /\ result' = "returned"
    /\ pc' = "done"
    /\ UNCHANGED <<op, entry, reqWidth, width, contrast, src, first, cap, pos, frame,
                   image, stages, ascii, asciiW, asciiH, out, img, orig, files, gif,
                   framesRead, resp, decodeFailed, probe>>

\* ascii_height, ascii_width of a list of lines
GridHeight(lines) == Len(lines)

GridWidth(lines) == MaxLen(lines)

\* lines = ascii_frame.strip().split('\n')
FrameLines(text) == SplitNL(Strip(text))

\* np.zeros((frame_height, frame_width, 3))
Canvas(w, h) == [made |-> TRUE, w |-> w, h |-> h, draws |-> {}]

\* The origin cv2.putText is given for the character at index x of the line
\* at index y: (x * char_width, (y + 1) * char_height - 4)
DrawOrigin(x, y) == <<x * CharWidth, (y + 1) * CharHeight - 4>>

\* The rendering loop: every line up to ascii_height, padded and cut to
\* ascii_width, one putText per character.
PutLines(canvas, lines, gw, gh) ==
    [canvas EXCEPT !.draws =
        {[char |-> LjustCut(lines[y + 1], gw)[x + 1], org |-> DrawOrigin(x, y)] :
            x \in 0..(gw - 1), y \in 0..(Min(Len(lines), gh) - 1)}]

\* export_image_to_png: the lines, the canvas, the rendering, cv2.imwrite
RenderImagePng ==
    /\ pc = "converted"
    /\ op = "export_image_to_png"
    /\ LET lines == AsciiLines(image)
       IN  /\ asciiH' = GridHeight(lines)
           /\ asciiW' = GridWidth(lines)
           /\ img' = PutLines(Canvas(GridWidth(lines) * CharWidth,
                                     GridHeight(lines) * CharHeight),
                              lines, GridWidth(lines), GridHeight(lines))
    /\ result' = "returned"
    /\ pc' = "done"
    /\ UNCHANGED <<op, entry, reqWidth, width, contrast, src, first, cap, pos, frame,
                   image, stages, ascii, out, orig, files, gif, framesRead, retval,
                   resp, decodeFailed, probe>>

\* export_frame_to_png: _sanitize_ascii, the lines, the canvas, the rendering,
\* cv2.imwrite (which refuses an empty image).
RenderFramePng ==
    /\ pc = "converted"
    /\ op = "export_frame_to_png"
    /\ LET text == SanitizeAscii(ascii)
           lines == FrameLines(text)
       IN  /\ ascii' = text
           /\ asciiH' = GridHeight(lines)
           /\ asciiW' = GridWidth(lines)
           /\ img' = PutLines(Canvas(GridWidth(lines) * CharWidth,
                                     GridHeight(lines) * CharHeight),
                              lines, GridWidth(lines), GridHeight(lines))
           /\ result' = IF GridWidth(lines) = 0 THEN "raised" ELSE "returned"
    /\ pc' = "done"
    /\ UNCHANGED <<op, entry, reqWidth, width, contrast, src, first, cap, pos, frame,
                   image, stages, out, orig, files, gif, framesRead, retval, resp,
                   decodeFailed, probe>>

(***************************************************************************)
(* Reading frames.  The length of the video shows when a read fails: a     *)
(* read past MaxFrames frames always fails, and frame 0, once decoded, is  *)
(* there when it is read again.                                            *)
(***************************************************************************)
\* get_frame_at_time, export_frame_to_png: ret, frame = cap.read(); cap.release()
ReadSeek ==
    /\ pc = "read"
    /\ op \in SeekOps
    /\ cap' = "released"
    /\ \/ /\ pos < MaxFrames
          /\ \E t \in Textures :
                /\ frame' = [w |-> src.w, h |-> src.h, tex |-> t]
                /\ image' = SourceRaster([w |-> src.w, h |-> src.h, tex |-> t])
          /\ pos' = pos + 1
          /\ stages' = <<"Received">>
          /\ pc' = ConvertOrder[1]
          /\ UNCHANGED <<result, retval, decodeFailed>>
       \/ /\ op = "get_frame_at_time"
          /\ decodeFailed' = TRUE
          /\ retval' = <<>>
          /\ result' = "returned"
          /\ pc' = "done"
          /\ UNCHANGED <<frame, image, pos, stages>>
       \/ /\ op = "export_frame_to_png"
          /\ decodeFailed' = TRUE
          /\ Raise
          /\ UNCHANGED <<frame, image, pos, stages, retval>>
    /\ UNCHANGED <<op, entry, reqWidth, width, contrast, src, first, ascii,
                   asciiW, asciiH, out, img, orig, files, gif, framesRead, resp, probe>>

\* export_video: the first frame is read to fix the size of the output
ReadFirst ==
    /\ pc = "read"
    /\ op \in {"export_video", "export_gif"}
    /\ out.state = "none"
    /\ \/ /\ pos < MaxFrames
          /\ \E t \in Textures :
                /\ first' = t
                /\ frame' = [w |-> src.w, h |-> src.h, tex |-> t]
                /\ image' = SourceRaster([w |-> src.w, h |-> src.h, tex |-> t])
          /\ pos' = pos + 1
          /\ stages' = <<"Received">>
          /\ pc' = ConvertOrder[1]
          /\ UNCHANGED <<cap, width, result, decodeFailed>>
       \/ /\ cap' = "released"
          /\ width' = orig
          /\ decodeFailed' = TRUE
          /\ Raise
          /\ UNCHANGED <<first, frame, image, pos, stages>>
    /\ UNCHANGED <<op, entry, reqWidth, contrast, src, ascii, asciiW, asciiH,
                   out, img, orig, files, gif, framesRead, retval, resp, probe>>

\* A mutant of PosAfterRewind: the decoder is left where the first read put it.
PosAfterRewind_NotRewound(p) == p

\* cap.set(cv2.CAP_PROP_POS_FRAMES, 0)
PosAfterRewind(p) == 0

\* export_video: the size of the output from the first frame, the writer,
\* which does not open on an empty frame size, and the decoder set back to
\* the first frame.
OpenWriter ==
    /\ pc = "converted"
    /\ op \in {"export_video", "export_gif"}
    /\ out.state = "none"
    /\ LET text == SanitizeAscii(ascii)
           lines == FrameLines(text)
           fw == GridWidth(lines) * CharWidth
           fh == GridHeight(lines) * CharHeight
       IN  /\ ascii' = text
           /\ asciiH' = GridHeight(lines)
           /\ asciiW' = GridWidth(lines)
           /\ \/ /\ fw > 0 /\ fh > 0
                 /\ out' = [state |-> "open", w |-> fw, h |-> fh, fps |-> src.fps,
                            n |-> 0, frames |-> <<>>]
                 /\ pos' = PosAfterRewind(pos)
                 /\ pc' = "read"
                 /\ UNCHANGED <<cap, width, result>>
              \/ /\ ~(fw > 0 /\ fh > 0)
                 /\ out' = [state |-> "failed", w |-> fw, h |-> fh, fps |-> src.fps,
                            n |-> 0, frames |-> <<>>]
                 /\ cap' = "released"
                 /\ width' = orig
                 /\ Raise
                 /\ UNCHANGED pos
    /\ UNCHANGED <<op, entry, reqWidth, contrast, src, first, frame, image, stages,
                   img, orig, files, gif, framesRead, retval, resp, decodeFailed, probe>>

\* The loops of export_video and extract_all_frames: ret, frame = cap.read(),
\* and what follows the loop when ret is False.  The text and the raster of
\* the frame before are dead once the next frame is read.
ReadLoop ==
    /\ pc = "read"
    /\ \/ op = "extract_all_frames"
       \/ op \in {"export_video", "export_gif"} /\ out.state = "open"
    /\ \/ /\ pos < MaxFrames
          /\ \E t \in Textures :
                /\ (pos = 0 /\ first # NoTex) => t = first
                /\ frame' = [w |-> src.w, h |-> src.h, tex |-> t]
                /\ image' = SourceRaster([w |-> src.w, h |-> src.h, tex |-> t])
          /\ first' = NoTex
          /\ ascii' = <<>>
          /\ img' = NoImg
          /\ pos' = pos + 1
          /\ stages' = <<"Received">>
          /\ pc' = ConvertOrder[1]
          /\ UNCHANGED <<cap, out, width, result>>
       \/ /\ ~(pos = 0 /\ first # NoTex)
          /\ op = "extract_all_frames"
          /\ cap' = "released"
          /\ result' = "returned"
          /\ pc' = "done"
          /\ UNCHANGED <<first, frame, image, ascii, img, pos, stages, out, width>>
       \/ /\ ~(pos = 0 /\ first # NoTex)
          /\ op \in {"export_video", "export_gif"}
          /\ cap' = "released"
          /\ out' = [out EXCEPT !.state = "released"]
          /\ width' = orig
          /\ result' = IF op = "export_video" THEN "returned" ELSE result
          /\ pc' = IF op = "export_video" THEN "done" ELSE "gif_read"
          /\ UNCHANGED <<first, frame, image, ascii, img, pos, stages>>
    /\ UNCHANGED <<op, entry, reqWidth, contrast, src, asciiW, asciiH,
                   orig, files, gif, framesRead, retval, resp, decodeFailed, probe>>

\* extract_all_frames: the frame's text is written to its file, which can fail
WriteFrameFile ==
    /\ pc = "converted"
    /\ op = "extract_all_frames"
    /\ \/ /\ files' = files + 1
          /\ pc' = "read"
          /\ UNCHANGED result
       \/ /\ Raise
          /\ UNCHANGED files
    /\ UNCHANGED <<op, entry, reqWidth, width, contrast, src, first, cap, pos, frame,
                   image, stages, ascii, asciiW, asciiH, out, img, orig, gif,
                   framesRead, retval, resp, decodeFailed, probe>>

\* export_video: the frame is rendered on a canvas of the first frame's size
\* and written
RenderWrite ==
    /\ pc = "converted"
    /\ op \in {"export_video", "export_gif"}
    /\ out.state = "open"
    /\ ascii' = SanitizeAscii(ascii)
    /\ img' = PutLines(Canvas(out.w, out.h), FrameLines(SanitizeAscii(ascii)),
                       asciiW, asciiH)
    /\ out' = [out EXCEPT !.n = @ + 1,
                          !.frames = Append(@, [src |-> pos - 1, w |-> out.w, h |-> out.h])]
    /\ pc' = "read"
    /\ UNCHANGED <<op, entry, reqWidth, width, contrast, src, first, cap, pos, frame,
                   image, stages, asciiW, asciiH, orig, files, gif, framesRead,
                   result, retval, resp, decodeFailed, probe>>

(***************************************************************************)
(* export_gif, after export_video: the frames of the ASCII video are read  *)
(* back (the video holds the frames written, at the writer's frame rate)   *)
(* and saved.                                                              *)
(***************************************************************************)
GifRead ==
    /\ pc = "gif_read"
    /\ framesRead < out.n
    /\ framesRead' = framesRead + 1
    /\ UNCHANGED <<op, entry, pc, reqWidth, width, contrast, src, first, cap, pos,
                   frame, image, stages, ascii, asciiW, asciiH, out, img, orig, files,
                   gif, result, retval, resp, decodeFailed, probe>>

\* A mutant of GifDuration: rounded to nearest.
GifDuration_Rounded(fps) == RoundDiv(1000, fps)

\* duration = int(1000 / fps)
GifDuration(fps) == 1000 \div fps

GifSave ==
    /\ pc = "gif_read"
    /\ framesRead = out.n
    /\ gif' = IF framesRead > 0
              THEN [saved |-> TRUE, duration |-> GifDuration(out.fps), n |-> framesRead]
              ELSE gif
    /\ result' = "returned"
    /\ pc' = "done"
    /\ UNCHANGED <<op, entry, reqWidth, width, contrast, src, first, cap, pos, frame,
                   image, stages, ascii, asciiW, asciiH, out, img, orig, files,
                   framesRead, retval, resp, decodeFailed, probe>>

(***************************************************************************)
(* The handlers of main.py.                                                *)
(***************************************************************************)
\* The handler's try/except: a JSON error for any exception, the result
\* otherwise.  export_ascii_gif then reads the GIF file, which is there only
\* when it was saved.
Respond ==
    /\ pc = "done"
    /\ entry = "http"
    /\ resp' = IF result = "returned" /\ (op = "export_gif" => gif.saved)
               THEN "success" ELSE "error"
    /\ pc' = "responded"
    /\ UNCHANGED <<op, entry, reqWidth, width, contrast, src, first, cap, pos, frame,
                   image, stages, ascii, asciiW, asciiH, out, img, orig, files, gif,
                   framesRead, result, retval, decodeFailed, probe>>

(***************************************************************************)
(* Direct calls of the pure methods.                                       *)
(***************************************************************************)
ProbeWidths == {1, 2, 3, 100, SafeWidth, SafeWidth + 1}

ProbeSizes == SrcSizes \cup {<<200, 100>>, <<2, 1>>, <<3, 4>>, <<1000, 1>>}

\* ESC, newline, "[", "0", "m", "#" and a character outside ASCII
SanitizeAlphabet == {27, NL, 91, 48, 109, 35, 233}

Texts == UNION {[1..n -> SanitizeAlphabet] : n \in 0..MaxTextLen}

\* converter.resize_image(image) on an image of size W x H
ProbeResize ==
    /\ op = "idle" /\ probe = NoProbe
    /\ \E w \in ProbeWidths, sz \in ProbeSizes :
        probe' = [fn |-> "resize_image", in |-> <<w, sz[1], sz[2]>>,
                  out |-> <<w, NewHeight(w, sz[1], sz[2])>>,
                  raised |-> NewHeight(w, sz[1], sz[2]) < 1]
    /\ UNCHANGED <<op, entry, pc, reqWidth, width, contrast, src, first, cap, pos,
                   frame, image, stages, ascii, asciiW, asciiH, out, img, orig, files,
                   gif, framesRead, result, retval, resp, decodeFailed>>

\* converter.get_char(brightness)
ProbeGetChar ==
    /\ op = "idle" /\ probe = NoProbe
    /\ \E b \in 0..255 :
        probe' = [fn |-> "get_char", in |-> <<b>>, out |-> <<GetChar(b)>>,
                  raised |-> FALSE]
    /\ UNCHANGED <<op, entry, pc, reqWidth, width, contrast, src, first, cap, pos,
                   frame, image, stages, ascii, asciiW, asciiH, out, img, orig, files,
                   gif, framesRead, result, retval, resp, decodeFailed>>

\* self._sanitize_ascii(text)
ProbeSanitize ==
    /\ op = "idle" /\ probe = NoProbe
    /\ \E t \in Texts :
        probe' = [fn |-> "_sanitize_ascii", in |-> t, out |-> SanitizeAscii(t),
                  raised |-> FALSE]
    /\ UNCHANGED <<op, entry, pc, reqWidth, width, contrast, src, first, cap, pos,
                   frame, image, stages, ascii, asciiW, asciiH, out, img, orig, files,
                   gif, framesRead, result, retval, resp, decodeFailed>>

\* Every request constructs its converter anew.
NextRequest ==
    /\ \/ pc = "responded"
       \/ pc = "done" /\ entry = "api"
       \/ probe # NoProbe
    /\ op' = "idle"
    /\ entry' = "http"
    /\ pc' = "idle"
    /\ reqWidth' = 0
    /\ width' = 0
    /\ contrast' = 2
    /\ src' = [w |-> 0, h |-> 0, fps |-> 0]
    /\ first' = NoTex
    /\ cap' = "none"
    /\ pos' = 0
    /\ frame' = NoFrame
    /\ image' = <<>>
    /\ stages' = <<>>
    /\ ascii' = <<>>
    /\ asciiW' = 0
    /\ asciiH' = 0
    /\ out' = NoWriter
    /\ img' = NoImg
    /\ orig' = 0
    /\ files' = 0
    /\ gif' = NoGif
    /\ framesRead' = 0
    /\ result' = "none"
    /\ retval' = <<>>
    /\ resp' = "none"
    /\ decodeFailed' = FALSE
    /\ probe' = NoProbe

Next ==
    \/ CallImage
    \/ CallVideo
    \/ Resize
    \/ Adjust
    \/ Sample
    \/ ReturnText
    \/ RenderImagePng
    \/ RenderFramePng
    \/ ReadSeek
    \/ ReadFirst
    \/ OpenWriter
    \/ ReadLoop
    \/ WriteFrameFile
    \/ RenderWrite
    \/ GifRead
    \/ GifSave
    \/ Respond
    \/ ProbeResize
    \/ ProbeGetChar
    \/ ProbeSanitize
    \/ NextRequest

Spec == Init /\ [][Next]_vars


(***************************************************************************)
(* The claims.                                                             *)
(***************************************************************************)
\* n = floor(num / den), for den > 0
IsFloorOf(n, num, den) == n * den <= num /\ num < (n + 1) * den

\* A conversion is past resize_image and its image is the resized one.
Resized == pc \in {"adjust", "sample", "converted"} /\ "Resampled" \in {stages[i] : i \in 1..Len(stages)}

\* C1 (as amended): resize_image asks for targetWidth columns and
\* int(targetWidth * (H / W) * 0.43) rows, the product truncated and not
\* rounded; no minimum of 1 row is applied, and a request for 0 rows is
\* refused by the resize (it raises) instead. A 200 x 100 source with
\* targetWidth = 100 gives 21 rows.
C1_ResizeRowsTruncated ==
    /\ probe.fn = "resize_image" =>
          /\ probe.out[1] = probe.in[1]
          /\ IsFloorOf(probe.out[2], probe.in[1] * probe.in[3] * 43, probe.in[2] * 100)
          /\ probe.raised <=> probe.out[2] = 0
          /\ probe.in = <<100, 200, 100>> => probe.out = <<100, 21>>
    /\ Resized =>
          /\ Len(image) >= 1
          /\ IsFloorOf(Len(image), width * frame.h * 43, frame.w * 100)
          /\ \A y \in 1..Len(image) : Len(image[y]) = width
    /\ (pc = "done" /\ stages = <<"Received">> /\ result = "raised" /\ ~decodeFailed) =>
          width * frame.h * 43 < frame.w * 100

\* C1, witness: the 200 x 100 source at targetWidth 100 was resized to 21 rows.
C1_Witness ==
    probe.fn = "resize_image" /\ probe.in = <<100, 200, 100>> /\ probe.out = <<100, 21>>

\* C1 as stated: round(targetWidth * (H / W) * 0.43) rows, never fewer than 1.
C1_ResizeRowsRounded ==
    probe.fn = "resize_image" =>
        /\ ~probe.raised
        /\ probe.out[2] = Max(1, RoundDiv(probe.in[1] * probe.in[3] * 43, probe.in[2] * 100))

\* C4: get_char(b) is ramp[floor(b * (L - 1) / 255)]: the index is within
\* 0..L-1, get_char(0) is ramp[0] and get_char(255) is ramp[L-1].
C4_GetCharFloorIndex ==
    probe.fn = "get_char" =>
        LET b == probe.in[1]
        IN  /\ \E i \in 0..(Len(CHARS) - 1) :
                  /\ IsFloorOf(i, b * (Len(CHARS) - 1), 255)
                  /\ probe.out = <<CHARS[i + 1]>>
            /\ b = 0 => probe.out = <<CHARS[1]>>
            /\ b = 255 => probe.out = <<CHARS[Len(CHARS)]>>

\* C4, witness: get_char(255) returned the last character of the ramp, and
\* get_char(128) the third.
C4_Witness ==
    \/ probe.fn = "get_char" /\ probe.in = <<255>> /\ probe.out = <<35>>
    \/ probe.fn = "get_char" /\ probe.in = <<128>> /\ probe.out = <<58>>


\* The rows and columns of the text convert_frame returns: every row ends in
\* a newline.
TextRows(text) == Cardinality({i \in 1..Len(text) : text[i] = NL})

TextCols(text) ==
    IF TextRows(text) = 0 THEN 0
    ELSE (CHOOSE k \in 1..Len(text) : text[k] = NL /\ \A j \in 1..(k - 1) : text[j] # NL) - 1

\* C2: in export_video the output raster is (8 * gridWidth) by
\* (14 * gridHeight) pixels, gridWidth and gridHeight being the columns and
\* rows of the grid convert_frame produced for the first frame.
C2_VideoRasterMatchesFirstGrid ==
    (op \in {"export_video", "export_gif"} /\ out.state = "open" /\ first # NoTex) =>
        /\ out.w = 8 * TextCols(ascii)
        /\ out.h = 14 * TextRows(ascii)

\* The index of the last character of the run of characters in lo..hi that
\* starts at i (i - 1 when there is none).
RunEnd(t, i, lo, hi) ==
    CHOOSE j \in (i - 1)..Len(t) :
        /\ \A k \in i..j : t[k] >= lo /\ t[k] <= hi
        /\ j = Len(t) \/ t[j + 1] < lo \/ t[j + 1] > hi

\* The index of the final byte of the CSI sequence ESC [ parameters
\* intermediates final that starts at i, 0 when none does.
CsiEnd(t, i) ==
    IF i + 1 <= Len(t) /\ t[i] = 27 /\ t[i + 1] = 91
    THEN LET q == RunEnd(t, RunEnd(t, i + 2, 48, 63) + 1, 32, 47)
         IN  IF q + 1 <= Len(t) /\ t[q + 1] >= 64 /\ t[q + 1] <= 126 THEN q + 1 ELSE 0
    ELSE 0

RECURSIVE RemoveCsiFrom(_, _)
RemoveCsiFrom(t, i) ==
    IF i > Len(t) THEN <<>>
    ELSE IF CsiEnd(t, i) > 0 THEN RemoveCsiFrom(t, CsiEnd(t, i) + 1)
    ELSE <<t[i]>> \o RemoveCsiFrom(t, i + 1)

\* C3: _sanitize_ascii removes each ANSI escape sequence as a whole, and only
\* then replaces the remaining non-printable characters by a space.
C3_SanitizeRemovesEscapeSequences ==
    probe.fn = "_sanitize_ascii" =>
        probe.out = SanitizeAscii(RemoveCsiFrom(probe.in, 1))

\* C5 (as amended): export_gif saves the animation with a per-frame duration
\* of int(1000 / fps) milliseconds, truncated and not rounded (200 ms at
\* 5 fps, 166 ms at 6 fps), and with as many frames as the ASCII video holds.
C5_GifDurationTruncated ==
    gif.saved =>
        /\ IsFloorOf(gif.duration, 1000, out.fps)
        /\ out.fps = 5 => gif.duration = 200
        /\ gif.n = out.n
        /\ gif.n >= 1

\* C5, witness: a GIF of two frames was saved from a 6 fps video at 166 ms.
C5_Witness ==
    gif.saved /\ out.fps = 6 /\ gif.duration = 166 /\ gif.n = 2 /\ out.n = 2

\* C5 as stated: the duration is round(1000 / fps).
C5_GifDurationRounded ==
    gif.saved =>
        /\ gif.duration = RoundDiv(1000, out.fps)
        /\ gif.n = out.n

\* C6: when export_video or extract_all_frames has ended, by a return or by
\* an exception, the decoder handle is released, and so is the writer once
\* it was opened.
C6_HandlesReleasedOnExit ==
    (op \in {"export_video", "extract_all_frames"} /\ result # "none") =>
        /\ cap = "released"
        /\ out.state # "open"

\* C7: when the requested frame cannot be read, the operation signals an
\* error and the caller never reports a successful conversion.
C7_DecodeFailureSignalled ==
    decodeFailed => (result # "returned" /\ resp # "success")

\* C8: every raster output requested of the service is rendered from a grid
\* of at most 150 columns.
C8_RasterGridAtMostSafeWidth ==
    (img.made /\ entry = "http") => (asciiW <= 150 /\ img.w <= 150 * 8)

\* The stages of a conversion, in the order of the code.
CodeStages == <<"Received", "Resampled", "ToneAdjusted", "Sampled">>

\* C9 (as amended): every per-frame conversion passes through the stages in
\* the order Received -> Resampled -> ToneAdjusted -> Sampled: the frame is
\* resampled to the target grid size first and the contrast adjustment is
\* applied to the resampled frame.
C9_ResampledBeforeToneAdjusted ==
    /\ Len(stages) <= 4
    /\ \A i \in 1..Len(stages) : stages[i] = CodeStages[i]
    /\ (stages # <<>> /\ stages[Len(stages)] = "ToneAdjusted") =>
          /\ Len(image) = NewHeight(width, frame.w, frame.h)
          /\ \A y \in 1..Len(image) : Len(image[y]) = width

\* C9, witness: a frame of a video export has passed all four stages.
C9_Witness ==
    op = "export_video" /\ stages = CodeStages /\ pc = "converted"

\* C9 as stated: Received -> ToneAdjusted -> Resampled -> Sampled.
C9_ToneAdjustedBeforeResampled ==
    \A i \in 1..Len(stages) :
        stages[i] = <<"Received", "ToneAdjusted", "Resampled", "Sampled">>[i]

\* The conversion has just adjusted the contrast of the resampled frame.
JustAdjusted == pc = "sample" /\ stages = <<"Received", "Resampled", "ToneAdjusted">>

\* The sum of the luminance of the pixels of a raster.
LumaTotal(raster) ==
    SumSeq([y \in 1..Len(raster) |->
               SumSeq([x \in 1..Len(raster[y]) |-> Luma(raster[y][x])])])

\* C10 (as amended): with contrast factor 0, adjust_image maps every pixel of
\* the frame to one grey, the same in all channels: the mean luminance of the
\* frame it is given, rounded to nearest (128 only for a frame whose mean is
\* 128); with contrast factor 1.0 the frame is returned unchanged.
C10_ContrastZeroFlattensToMean ==
    JustAdjusted =>
        LET before == Raster(frame, width)
            count == Len(before) * width
        IN  /\ contrast = 0 =>
                  \E m \in 0..255 :
                      /\ IsFloorOf(m, 2 * LumaTotal(before) + count, 2 * count)
                      /\ \A y \in 1..Len(image) : \A x \in 1..Len(image[y]) :
                            image[y][x] = <<m, m, m>>
            /\ contrast = 2 => image = before
            /\ Len(image) = Len(before)

\* C10, witness: contrast 0 has flattened a frame of one white and two black
\* pixels to the grey 85.
C10_Witness ==
    /\ JustAdjusted
    /\ contrast = 0
    /\ Raster(frame, width) = <<<<Black, White, Black>>>>
    /\ image = <<<<<<85, 85, 85>>, <<85, 85, 85>>, <<85, 85, 85>>>>>>

\* C10 as stated: contrast 0 maps every pixel to 128 in all channels.
C10_ContrastZeroFlattensTo128 ==
    JustAdjusted =>
        /\ contrast = 0 =>
              \A y \in 1..Len(image) : \A x \in 1..Len(image[y]) :
                  image[y][x] = <<128, 128, 128>>
        /\ contrast = 2 => image = Raster(frame, width)


\* C11: in export_video every frame written has the pixel size fixed from the
\* first frame's lines, the k-th frame written is rendered from the k-th
\* frame of the source (the first frame, read once before to fix the size,
\* is written exactly once), and when the source is exhausted after N frames
\* exactly N frames have been written.
C11_VideoFramesWrittenInOrder ==
    (op \in {"export_video", "export_gif"} /\ out.state \in {"open", "released"}) =>
        /\ out.w = CharWidth * asciiW
        /\ out.h = CharHeight * asciiH
        /\ out.n = Len(out.frames)
        /\ \A k \in 1..Len(out.frames) :
                out.frames[k] = [src |-> k - 1, w |-> out.w, h |-> out.h]
        /\ out.state = "released" => Len(out.frames) = pos

\* export_video has returned after a source of two frames
C11_Witness ==
    /\ op = "export_video" /\ result = "returned" /\ out.state = "released"
    /\ pos = 2 /\ Len(out.frames) = 2
    /\ out.frames[2].src = 1


\* C12: the text convert_frame / convert_to_ascii has built is one row per
\* row of the resampled frame, every row exactly converter.width characters
\* long and ended by a newline, and the resampled frame is converter.width
\* pixels wide.
C12_GridRowsHaveTargetWidth ==
    (pc = "converted" /\ op # "export_image_to_png") =>
        LET rows == SplitNL(ascii)
        IN  /\ Len(rows) = Len(image) + 1
            /\ rows[Len(rows)] = <<>>
            /\ Len(image) = NewHeight(width, frame.w, frame.h)
            /\ \A y \in 1..Len(image) :
                    Len(rows[y]) = width /\ Len(image[y]) = width

\* convert_to_ascii has built a grid of one row of 151 columns that ends in
\* blank glyphs
C12_Witness ==
    /\ pc = "converted" /\ op = "convert_to_ascii"
    /\ width = SafeWidth + 1 /\ Len(image) = 1
    /\ Len(ascii) = SafeWidth + 2
    /\ ascii[SafeWidth + 1] = SPACE


\* C13: the text _sanitize_ascii returns is as long as its input, holds only
\* newlines and characters of 0x20..0x7E, has its newlines exactly where the
\* input has them, and is returned unchanged when it is sanitized again.
C13_SanitizeIdempotentRangeClosed ==
    probe.fn = "_sanitize_ascii" =>
        LET t == probe.in
            r == probe.out
        IN  /\ Len(r) = Len(t)
            /\ \A i \in 1..Len(r) :
                    /\ r[i] = NL \/ (32 <= r[i] /\ r[i] <= 126)
                    /\ (r[i] = NL) <=> (t[i] = NL)
            /\ SanitizeAscii(r) = r

\* a text with ESC, a newline, a character outside ASCII and "#" was sanitized
C13_Witness ==
    /\ probe.fn = "_sanitize_ascii"
    /\ probe.in = <<27, NL, 233, 35>>
    /\ probe.out = <<SPACE, NL, SPACE, 35>>


\* A raster has just been rendered from the text in ascii by
\* export_frame_to_png or by the loop of export_video.
FrameRendered ==
    /\ img.made
    /\ \/ op = "export_frame_to_png" /\ pc = "done" /\ result = "returned"
       \/ op \in {"export_video", "export_gif"} /\ pc = "read" /\ out.n > 0

\* The glyphs of the grid in a text, with the origin claimed for each: the
\* glyph at row r, column c at (8 * c, 14 * (r + 1) - 4).  A blank glyph
\* leaves no mark and is left out.
GridGlyphs(text) ==
    LET rows == SplitNL(text)
    IN  {[char |-> rows[r + 1][c + 1], org |-> <<8 * c, 14 * (r + 1) - 4>>] :
            <<r, c>> \in {rc \in (0..(TextRows(text) - 1)) \X (0..(TextCols(text) - 1)) :
                            /\ rc[2] < Len(rows[rc[1] + 1])
                            /\ rows[rc[1] + 1][rc[2] + 1] # SPACE}}

\* C14: in export_frame_to_png and export_video the glyph of cell (r, c) of
\* the grid convert_frame produced is drawn with origin
\* (8 * c, 14 * (r + 1) - 4): every glyph of the grid is drawn there, and
\* nothing is drawn anywhere else or outside the grid.
C14_GlyphsDrawnInTheirCells ==
    FrameRendered =>
        {d \in img.draws : d.char # SPACE} = GridGlyphs(ascii)


\* C15: once a call of export_video has ended, by a return or by an
\* exception, converter.width is the width the converter had before the call.
C15_WidthRestoredAfterExportVideo ==
    (op \in {"export_video", "export_gif"} /\ (result # "none" \/ pc = "gif_read")) =>
        width = orig
====
